---- MODULE Spec2Model ----
(***************************************************************************)
(* NBD server of rust-nbd: the listener (Server::start), the per-connection *)
(* pipeline (initial_handshake, handshake_haggle, handle_ops) and the two   *)
(* backing stores (MemBlocks, File), over a stream of typed frames.         *)
(*                                                                         *)
(* A frame stands for one complete wire record (client flags, Opt, Request  *)
(* with its payload; OptReply, SimpleReply with its payload).  The server   *)
(* is single threaded, so each action is the code between two blocking      *)
(* reads of the socket.                                                     *)
(***************************************************************************)
EXTENDS Integers, Sequences, FiniteSets, TLC

VARIABLES
    backend,   \* "mem" (RefCell<Vec<u8>>) or "file" (std::fs::File): the type F of Export<F>
    data,      \* the export's bytes; size() is Len(data)
    pending,   \* connections waiting in the listener's accept queue
    accepted,  \* connections taken by listener.incoming() so far
    phase,     \* where Server::start is: "idle" (in accept), "S0", "S1", "S2";
               \* "crashed": the process has panicked
    flags,     \* HandshakeFlags returned by initial_handshake for this connection
    inq,       \* frames the client has written and the server has not read yet
    closed,    \* the client has closed its socket (end of stream after inq)
    out,       \* everything the server has written on this connection, in order
    log,       \* the requests handle_ops has read on this connection, in order
    sent,      \* every frame the client has written on the open connection, in order
    result,    \* what handle_client returned last: "none", "ok", "err"
    nreq,      \* Request frames sent by clients so far (bounded by MaxReqs)
    nopt,      \* Opt frames sent on this connection (bounded by MaxOpts)
    cli        \* a Client<IO> of the client library and the stream it talks over

vars == <<backend, data, pending, accepted, phase, flags, inq, closed, out, log,
          sent, result, nreq, nopt, cli>>

----------------------------------------------------------------------------
(* Bounds of the model *)

\* size in bytes of the export at startup (main.rs: args.size MiB)
Size == 3
\* length of the per-connection scratch buffer (server.rs: 4096 * 64), scaled
BufLen == 2
\* byte values are 0..MaxByte
MaxByte == 1
\* request handles are 0..MaxHandle
MaxHandle == 1
\* connections a run may open
MaxConns == 2
\* Request frames all clients together may send
MaxReqs == 2
\* Opt frames a client may send on one connection
MaxOpts == 2
\* frames a client may have in flight (written, not yet read by the server)
MaxInFlight == 2
\* info types an InfoRequest may carry
MaxInfo == 2
\* N of the pipelined client: N writes, then N reads at the same offsets
PipeN == 2
\* operations a run calls on the Client of the client library
MaxOps == 2

----------------------------------------------------------------------------
(* Wire constants and bitflags (crate::proto) *)

\* HandshakeFlags (server to client, 16 bits)
FIXED_NEWSTYLE == 1
NO_ZEROES == 2
\* ClientHandshakeFlags (client to server, 32 bits)
C_FIXED_NEWSTYLE == 1
C_NO_ZEROES == 2
\* TransmitFlags (16 bits)
HAS_FLAGS == 1
SEND_FLUSH == 8

\* the bit positions a flag word of the model can hold
BitSet == {1, 2, 4, 8}

\* bitflags: self.contains(bit), for a single bit
Contains(v, bit) == (v \div bit) % 2 = 1

RECURSIVE SumSet(_)
SumSet(S) == IF S = {} THEN 0 ELSE LET x == CHOOSE y \in S : TRUE IN x + SumSet(S \ {x})

\* bitflags: a | b
BitOr(a, b) == SumSet({bit \in BitSet : Contains(a, bit) \/ Contains(b, bit)})

\* bitflags: from_bits(v) is None when v has a bit outside `known`
FromBitsOk(v, known) == \A bit \in BitSet : Contains(v, bit) => Contains(known, bit)

\* ErrorType::from_io_kind: OS error category to NBD error code
FromIoKind(kind) ==
    CASE kind = "PermissionDenied" -> "EPERM"
      [] kind \in {"NotFound", "InvalidInput"} -> "EINVAL"
      [] kind = "StorageFull" -> "ENOSPC"
      [] OTHER -> "EIO"

----------------------------------------------------------------------------
(* Backing stores: impl Blocks for MemBlocks / for File *)

IoOk(d, bytes) == [ok |-> TRUE, kind |-> "none", data |-> d, bytes |-> bytes]
IoErr(d, kind) == [ok |-> FALSE, kind |-> kind, data |-> d, bytes |-> <<>>]

Zeroes(n) == [i \in 1..n |-> 0]

\* d with buf copied in at byte offset off (d is long enough)
Splice(d, buf, off) ==
    [i \in 1..Len(d) |-> IF i > off /\ i <= off + Len(buf) THEN buf[i - off] ELSE d[i]]

\* MemBlocks::read_at(buf, off) with buf.len() = len
MemReadAt(d, len, off) ==
    IF off + len >= Len(d)
    THEN IoErr(d, "InvalidInput")
    ELSE IoOk(d, SubSeq(d, off + 1, off + len))

\* MemBlocks::write_at that copies buf to the front of the vector
\* (data[..buf.len()] for data[off..off + buf.len()])
MemWriteAt_AtFront(d, buf, off) ==
    IF off + Len(buf) >= Len(d)
    THEN IoErr(d, "InvalidInput")
    ELSE IoOk(Splice(d, buf, 0), <<>>)

\* MemBlocks::write_at(buf, off)
MemWriteAt(d, buf, off) ==
    IF off + Len(buf) >= Len(d)
    THEN IoErr(d, "InvalidInput")
    ELSE IoOk(Splice(d, buf, off), <<>>)

\* usize values are 0..Word-1 (the 64-bit word, scaled)
Word == 8

\* the build profiles: debug checks integer overflow, release wraps
Profiles == {"debug", "release"}

\* the bounds test and the slice of MemBlocks::read_at / write_at in usize
\* arithmetic, for a vector of n bytes and buf.len() = len: "ok" (the range
\* off..off+len is accessed), "err" (InvalidInput) or "panic".  When
\* off + buf.len() exceeds the word the debug profile panics on the
\* addition; the release profile wraps, and then either the wrapped sum
\* passes for out of bounds or the slice data[off..wrapped] panics, its
\* start being behind its end
MemAccess(n, len, off, profile) ==
    IF off + len >= Word
    THEN IF profile = "debug" THEN "panic"
         ELSE IF (off + len) % Word >= n THEN "err"
         ELSE IF off > (off + len) % Word THEN "panic" ELSE "ok"
    ELSE IF off + len >= n THEN "err" ELSE "ok"

\* File::read_at = FileExt::read_exact_at: an empty buffer is filled at once,
\* a read that runs past the end of the file is UnexpectedEof; fault: the
\* pread system call fails.
FileReadAt(d, len, off, fault) ==
    IF len = 0 THEN IoOk(d, <<>>)
    ELSE IF fault THEN IoErr(d, "Other")
    ELSE IF off + len > Len(d) THEN IoErr(d, "UnexpectedEof")
    ELSE IoOk(d, SubSeq(d, off + 1, off + len))

\* the file after pwrite of buf at off: a write past the end extends the file,
\* and the gap reads as zeroes
Pwrite(d, buf, off) ==
    LET grown == IF off + Len(buf) > Len(d)
                 THEN d \o Zeroes(off + Len(buf) - Len(d)) ELSE d
    IN  Splice(grown, buf, off)

\* File::write_at = FileExt::write_all_at: an empty buffer is written at once;
\* wrote < Len(buf): pwrite fails after `wrote` bytes went to the file.
FileWriteAt(d, buf, off, wrote) ==
    IF Len(buf) = 0 THEN IoOk(d, <<>>)
    ELSE IF wrote < Len(buf)
    THEN IoErr(IF wrote = 0 THEN d ELSE Pwrite(d, SubSeq(buf, 1, wrote), off), "Other")
    ELSE IoOk(Pwrite(d, buf, off), <<>>)

\* Blocks::read_at / write_at / size / flush for the export's backing store
ReadAt(b, d, len, off, fault) ==
    IF b = "mem" THEN MemReadAt(d, len, off) ELSE FileReadAt(d, len, off, fault)

WriteAt(b, d, buf, off, wrote) ==
    IF b = "mem" THEN MemWriteAt(d, buf, off) ELSE FileWriteAt(d, buf, off, wrote)

BlocksSize(d) == Len(d)

\* MemBlocks::flush is a no-op; File::flush is sync_all, which can fail
BlocksFlush(b, fault) == IF b = "mem" THEN TRUE ELSE ~fault

----------------------------------------------------------------------------
(* Export<F> *)

\* Export::read without the test of len against buf.len()
ExportRead_NoLenCheck(b, d, off, len, buflen, fault) ==
    LET r == ReadAt(b, d, len, off, fault)
    IN  IF r.ok THEN [err |-> "OK", bytes |-> r.bytes]
        ELSE [err |-> FromIoKind(r.kind), bytes |-> <<>>]

\* Export::read(off, len, buf) with buf.len() = buflen: error code or the bytes
ExportRead(b, d, off, len, buflen, fault) ==
    IF buflen < len
    THEN [err |-> "EOVERFLOW", bytes |-> <<>>]
    ELSE LET r == ReadAt(b, d, len, off, fault)
         IN  IF r.ok THEN [err |-> "OK", bytes |-> r.bytes]
             ELSE [err |-> FromIoKind(r.kind), bytes |-> <<>>]

\* Export::write(off, len, data): error code and the export's bytes afterwards
ExportWrite(b, d, off, len, buf, wrote) ==
    IF len > Len(buf)
    THEN [err |-> "EOVERFLOW", data |-> d]
    ELSE LET r == WriteAt(b, d, SubSeq(buf, 1, len), off, wrote)
         IN  [err |-> IF r.ok THEN "OK" ELSE FromIoKind(r.kind), data |-> r.data]

\* Export::flush
ExportFlush(b, fault) == BlocksFlush(b, fault)

\* Export::size
ExportSize(d) == BlocksSize(d)

\* Server::TRANSMIT_FLAGS
TRANSMIT_FLAGS == BitOr(HAS_FLAGS, SEND_FLUSH)


----------------------------------------------------------------------------
(* Frames *)

Bytes == 0..MaxByte
Handles == 0..MaxHandle

\* sequences over S of length lo..hi
SeqsOf(S, lo, hi) == UNION {[1..n -> S] : n \in lo..hi}

Cmds == {"READ", "WRITE", "DISCONNECT", "FLUSH", "TRIM", "OTHER"}
InfoTypes == {"EXPORT", "NAME", "DESCRIPTION", "BLOCK_SIZE"}
OptTypes == {"EXPORT_NAME", "ABORT", "LIST", "INFO", "GO", "OTHER"}

\* client flags word (32 bits on the wire)
FlagsFrame(v) == [k |-> "flags", v |-> v]

\* Opt: utf8 says whether data is valid UTF-8 (EXPORT_NAME), parses whether data
\* decodes as an InfoRequest (INFO, GO), typs are the info types it asks for
OptFrame(typ, utf8, parses, typs) ==
    [k |-> "opt", typ |-> typ, utf8 |-> utf8, parses |-> parses, typs |-> typs]

\* Request with its payload (payload only for WRITE, len = Len(payload))
ReqFrame(typ, handle, offset, len, payload) ==
    [k |-> "req", typ |-> typ, handle |-> handle, offset |-> offset, len |-> len,
     payload |-> payload]

\* bytes that carry no magic of the protocol
JunkFrame == [k |-> "junk"]

\* SimpleReply::ok / ::data / ::err: the reply to req
SimpleReplyOk(req) == [k |-> "reply", err |-> "OK", handle |-> req.handle, data |-> <<>>]
SimpleReplyData(req, bytes) ==
    [k |-> "reply", err |-> "OK", handle |-> req.handle, data |-> bytes]
SimpleReplyErr(err, req) == [k |-> "reply", err |-> err, handle |-> req.handle, data |-> <<>>]

\* OptReply::new(opt_typ, reply_typ, data) and OptReply::ack(opt_typ)
OptReply(optTyp, replyTyp, d) == [k |-> "optreply", opt |-> optTyp, typ |-> replyTyp, data |-> d]
OptReplyAck(optTyp) == OptReply(optTyp, "ACK", <<>>)

\* one field written with write_u64 / write_u16 / write_all(&[0; n])
Magic(m) == [k |-> "magic", m |-> m]
U16(v) == [k |-> "u16", v |-> v]
U64(v) == [k |-> "u64", v |-> v]
Zeros(n) == [k |-> "zeroes", n |-> n]

\* Export name of the single export (main.rs)
ExportName == "default"

----------------------------------------------------------------------------
(* Server: pure parts of the handlers *)

\* initial_handshake, the greeting written before the client flags are read
Greeting == <<Magic("NBDMAGIC"), Magic("IHAVEOPT"), U16(BitOr(FIXED_NEWSTYLE, NO_ZEROES))>>

\* the u32 that read_u32 yields from the head frame: a flags frame is its
\* value; the first four bytes of any other frame hold bits that are no flag
ClientFlagsWord(f) == IF f.k = "flags" THEN f.v ELSE 4

\* initial_handshake that never propagates NO_ZEROES into the negotiated flags
InitialHandshake_DropNoZeroes(cf) ==
    IF ~FromBitsOk(cf, BitOr(C_FIXED_NEWSTYLE, C_NO_ZEROES)) THEN [ok |-> FALSE, flags |-> 0]
    ELSE IF ~Contains(cf, C_FIXED_NEWSTYLE) THEN [ok |-> FALSE, flags |-> 0]
    ELSE [ok |-> TRUE, flags |-> FIXED_NEWSTYLE]

\* initial_handshake without the test for C_FIXED_NEWSTYLE
InitialHandshake_NoFixedCheck(cf) ==
    IF ~FromBitsOk(cf, BitOr(C_FIXED_NEWSTYLE, C_NO_ZEROES)) THEN [ok |-> FALSE, flags |-> 0]
    ELSE [ok |-> TRUE,
          flags |-> IF Contains(cf, C_NO_ZEROES)
                    THEN BitOr(FIXED_NEWSTYLE, NO_ZEROES) ELSE FIXED_NEWSTYLE]

\* initial_handshake after read_u32: the negotiated flags, or a protocol error
InitialHandshake(cf) ==
    IF ~FromBitsOk(cf, BitOr(C_FIXED_NEWSTYLE, C_NO_ZEROES)) THEN [ok |-> FALSE, flags |-> 0]
    ELSE IF ~Contains(cf, C_FIXED_NEWSTYLE) THEN [ok |-> FALSE, flags |-> 0]
    ELSE [ok |-> TRUE,
          flags |-> IF Contains(cf, C_NO_ZEROES)
                    THEN BitOr(FIXED_NEWSTYLE, NO_ZEROES) ELSE FIXED_NEWSTYLE]

\* send_export_list that ends after the SERVER replies, without the ACK
SendExportList_NoAck == <<OptReply("LIST", "SERVER", <<[name |-> ExportName]>>)>>

\* send_export_list: ExportList::put, one SERVER reply per export name, then ACK
SendExportList == <<OptReply("LIST", "SERVER", <<[name |-> ExportName]>>), OptReplyAck("LIST")>>

\* send_export_info with the test of NO_ZEROES inverted
SendExportInfo_PadInverted(d, fl) ==
    <<U64(ExportSize(d)), U16(TRANSMIT_FLAGS)>>
    \o (IF Contains(fl, NO_ZEROES) THEN <<Zeros(124)>> ELSE <<>>)

\* send_export_info
SendExportInfo(d, fl) ==
    <<U64(ExportSize(d)), U16(TRANSMIT_FLAGS)>>
    \o (IF ~Contains(fl, NO_ZEROES) THEN <<Zeros(124)>> ELSE <<>>)

\* the reply of info_responses to one info type
InfoReply(optTyp, typ, d) ==
    CASE typ = "EXPORT" ->
           OptReply(optTyp, "INFO",
                    <<[info |-> "EXPORT", size |-> ExportSize(d), flags |-> TRANSMIT_FLAGS]>>)
      [] typ = "BLOCK_SIZE" ->
           OptReply(optTyp, "INFO",
                    <<[info |-> "BLOCK_SIZE", min |-> 1, preferred |-> 4096,
                       max |-> 4096 * 32]>>)
      [] OTHER -> OptReply(optTyp, "ERR_UNSUP", <<>>)

\* info_responses whose NAME | DESCRIPTION arm does not return: the loop goes
\* on with the next type and ends with the ACK
RECURSIVE InfoLoop_NoReturn(_, _, _)
InfoLoop_NoReturn(optTyp, ts, d) ==
    IF ts = <<>> THEN <<OptReplyAck(optTyp)>>
    ELSE <<InfoReply(optTyp, Head(ts), d)>> \o InfoLoop_NoReturn(optTyp, Tail(ts), d)

\* info_responses over the remaining types ts (the requested types chained
\* with one EXPORT): the loop returns at the first NAME or DESCRIPTION
RECURSIVE InfoLoop(_, _, _)
InfoLoop(optTyp, ts, d) ==
    IF ts = <<>> THEN <<OptReplyAck(optTyp)>>
    ELSE IF Head(ts) \in {"NAME", "DESCRIPTION"} THEN <<InfoReply(optTyp, Head(ts), d)>>
    ELSE <<InfoReply(optTyp, Head(ts), d)>> \o InfoLoop(optTyp, Tail(ts), d)

\* info_responses that iterates over the requested types alone
InfoResponses_NoImplicitExport(optTyp, typs, d) == InfoLoop(optTyp, typs, d)

\* info_responses(opt_typ, info_req, stream): the frames it writes
InfoResponses(optTyp, typs, d) == InfoLoop(optTyp, typs \o <<"EXPORT">>, d)

\* one iteration of the loop of handshake_haggle on the frame f read by
\* Opt::get: the frames written and where the handler goes next
\* ("S1": loop again, "S2": Ok(Some(export)), "ok": Ok(None), "err": Err)
HandshakeHaggle(f, d, fl) ==
    IF f.k # "opt" THEN [out |-> <<>>, next |-> "err"]
    ELSE CASE f.typ = "EXPORT_NAME" ->
                IF ~f.utf8 THEN [out |-> <<>>, next |-> "err"]
                ELSE [out |-> SendExportInfo(d, fl), next |-> "S2"]
           [] f.typ = "LIST" -> [out |-> SendExportList, next |-> "S1"]
           [] f.typ = "INFO" ->
                IF ~f.parses THEN [out |-> <<>>, next |-> "err"]
                ELSE [out |-> InfoResponses(f.typ, f.typs, d), next |-> "S1"]
           [] f.typ = "GO" ->
                IF ~f.parses THEN [out |-> <<>>, next |-> "err"]
                ELSE [out |-> InfoResponses(f.typ, f.typs, d), next |-> "S2"]
           [] f.typ = "ABORT" -> [out |-> <<>>, next |-> "ok"]
           [] OTHER -> [out |-> <<OptReply(f.typ, "ERR_UNSUP", <<>>)>>, next |-> "S1"]

\* the scratch buffer after Request::get: a WRITE's payload is read into its
\* front; the bytes behind it are left over from earlier requests and never
\* looked at (Export::write takes data[..len])
Scratch(req) == req.payload \o Zeroes(BufLen - Len(req.payload))

\* data_len of the Request that Request::get returns
DataLen(req) == IF req.typ = "WRITE" THEN req.len ELSE 0

\* one byte of a WRITE's payload on the wire
ByteUnit(v) == [k |-> "byte", v |-> v]

\* the first bytes of a Request header (its magic included), the rest missing
PartUnit == [k |-> "part"]

\* the payload bytes carried by the units us
RECURSIVE UnitBytes(_)
UnitBytes(us) == IF us = <<>> THEN <<>> ELSE <<Head(us).v>> \o UnitBytes(Tail(us))

\* Request::get(stream, buf) on the stream as it is on the wire, q: a Request
\* header (a "req" unit, its payload field empty) followed, for a WRITE, by
\* len payload bytes, one unit each.  st is "none" (Ok(None): end of stream
\* before a header), "err" (wrong magic, or end of stream inside a header or
\* inside a payload), "block" (the read waits for more bytes) or "req"
\* (Ok(Some(req)) with the payload read into the buffer; rest: what is left)
RequestGet(q, isClosed) ==
    LET none == [st |-> "none", req |-> JunkFrame, rest |-> q]
        err == [st |-> "err", req |-> JunkFrame, rest |-> q]
        block == [st |-> "block", req |-> JunkFrame, rest |-> q]
    IN  IF q = <<>> THEN (IF isClosed THEN none ELSE block)
        ELSE IF Head(q).k = "part" THEN (IF isClosed THEN err ELSE block)
        ELSE IF Head(q).k # "req" THEN err
        ELSE LET h == Head(q)
                 n == IF h.typ = "WRITE" THEN h.len ELSE 0
             IN  IF Len(q) - 1 < n THEN (IF isClosed THEN err ELSE block)
                 ELSE IF \E i \in 2..(n + 1) : q[i].k # "byte" THEN err
                 ELSE [st |-> "req",
                       req |-> [h EXCEPT !.payload = UnitBytes(SubSeq(q, 2, n + 1))],
                       rest |-> SubSeq(q, n + 2, Len(q))]

\* handle_ops, Cmd::READ, answering a failed read with an error reply that is
\* followed by req.len bytes of the scratch buffer
OpsRead_PayloadOnError(b, d, req, fault) ==
    LET r == ExportRead(b, d, req.offset, req.len, BufLen, fault)
    IN  [out |-> IF r.err = "OK" THEN <<SimpleReplyData(req, r.bytes)>>
                 ELSE <<[SimpleReplyErr(r.err, req) EXCEPT !.data = Zeroes(req.len)]>>,
         data |-> d, next |-> "S2"]

\* handle_ops, Cmd::READ: the frames written, the export afterwards and where
\* the handler goes next ("S2": loop again, "ok": return Ok, "err": return Err)
OpsRead(b, d, req, fault) ==
    LET r == ExportRead(b, d, req.offset, req.len, BufLen, fault)
    IN  [out |-> IF r.err = "OK" THEN <<SimpleReplyData(req, r.bytes)>>
                 ELSE <<SimpleReplyErr(r.err, req)>>,
         data |-> d, next |-> "S2"]

\* handle_ops, Cmd::WRITE, with the Err arm logging the error and sending nothing
OpsWrite_SilentError(b, d, req, wrote) ==
    LET r == ExportWrite(b, d, req.offset, DataLen(req), Scratch(req), wrote)
    IN  [out |-> IF r.err = "OK" THEN <<SimpleReplyOk(req)>> ELSE <<>>,
         data |-> r.data, next |-> "S2"]

\* handle_ops, Cmd::WRITE
OpsWrite(b, d, req, wrote) ==
    LET r == ExportWrite(b, d, req.offset, DataLen(req), Scratch(req), wrote)
    IN  [out |-> IF r.err = "OK" THEN <<SimpleReplyOk(req)>>
                 ELSE <<SimpleReplyErr(r.err, req)>>,
         data |-> r.data, next |-> "S2"]

\* handle_ops, Cmd::DISCONNECT, acknowledging the request before it returns
OpsDisconnect_Ack(d, req) == [out |-> <<SimpleReplyOk(req)>>, data |-> d, next |-> "ok"]

\* handle_ops, Cmd::DISCONNECT
OpsDisconnect(d, req) == [out |-> <<>>, data |-> d, next |-> "ok"]

\* handle_ops, Cmd::FLUSH, flushing without sending the reply
OpsFlush_NoReply(b, d, req, fault) ==
    IF ExportFlush(b, fault)
    THEN [out |-> <<>>, data |-> d, next |-> "S2"]
    ELSE [out |-> <<>>, data |-> d, next |-> "err"]

\* handle_ops, Cmd::FLUSH, answering a failed flush with an error reply and
\* staying in the loop
OpsFlush_ReplyError(b, d, req, fault) ==
    IF ExportFlush(b, fault)
    THEN [out |-> <<SimpleReplyOk(req)>>, data |-> d, next |-> "S2"]
    ELSE [out |-> <<SimpleReplyErr("EIO", req)>>, data |-> d, next |-> "S2"]

\* handle_ops, Cmd::FLUSH
OpsFlush(b, d, req, fault) ==
    IF ExportFlush(b, fault)
    THEN [out |-> <<SimpleReplyOk(req)>>, data |-> d, next |-> "S2"]
    ELSE [out |-> <<>>, data |-> d, next |-> "err"]

\* handle_ops, Cmd::TRIM
OpsTrim(d, req) == [out |-> <<SimpleReplyOk(req)>>, data |-> d, next |-> "S2"]

\* handle_ops, any other command, answered from a default request
OpsOther_ZeroHandle(d, req) ==
    [out |-> <<SimpleReplyErr("ENOTSUP", [req EXCEPT !.handle = 0])>>, data |-> d,
     next |-> "ok"]

\* handle_ops, any other command, staying in the loop after the reply
OpsOther_Continue(d, req) ==
    [out |-> <<SimpleReplyErr("ENOTSUP", req)>>, data |-> d, next |-> "S2"]

\* handle_ops, any other command
OpsOther(d, req) == [out |-> <<SimpleReplyErr("ENOTSUP", req)>>, data |-> d, next |-> "ok"]

\* whether handling req on an export of n bytes panics: Export::read and
\* Export::write call the memory store's read_at / write_at unless the length
\* exceeds the buffer
Panics(b, n, req, profile) ==
    /\ b = "mem"
    /\ req.typ \in {"READ", "WRITE"}
    /\ req.len <= BufLen
    /\ MemAccess(n, req.len, req.offset, profile) = "panic"

\* one iteration of the loop of handle_ops on the request req.  fault, wrote:
\* what the operating system does to this request's I/O (fault: pread or
\* sync_all fails; wrote: bytes pwrite stores before it fails, all if none).
HandleOps(b, d, req, fault, wrote) ==
    CASE req.typ = "READ" -> OpsRead(b, d, req, fault)
      [] req.typ = "WRITE" -> OpsWrite(b, d, req, wrote)
      [] req.typ = "DISCONNECT" -> OpsDisconnect(d, req)
      [] req.typ = "FLUSH" -> OpsFlush(b, d, req, fault)
      [] req.typ = "TRIM" -> OpsTrim(d, req)
      [] OTHER -> OpsOther(d, req)

\* whether the operating system failed the I/O of this request
OsFailed(b, req, fault, wrote) ==
    /\ b = "file"
    /\ \/ req.typ = "READ" /\ req.len > 0 /\ req.len <= BufLen /\ fault
       \/ req.typ = "WRITE" /\ req.len > 0 /\ wrote < req.len
       \/ req.typ = "FLUSH" /\ fault

----------------------------------------------------------------------------
(* Clients *)

\* largest client flags word a client sends
MaxFlagWord == 5

FlagFrames == {FlagsFrame(v) : v \in 0..MaxFlagWord}

InfoOptFrames ==
    {OptFrame(t, TRUE, TRUE, ts) : t \in {"INFO", "GO"}, ts \in SeqsOf(InfoTypes, 0, MaxInfo)}
    \cup {OptFrame(t, TRUE, FALSE, <<>>) : t \in {"INFO", "GO"}}

OptFrames ==
    {OptFrame("EXPORT_NAME", u, TRUE, <<>>) : u \in BOOLEAN}
    \cup {OptFrame(t, TRUE, TRUE, <<>>) : t \in {"ABORT", "LIST", "OTHER"}}
    \cup InfoOptFrames

\* offsets reach one byte past the export, lengths one byte past the buffer
ReqFrames ==
    {ReqFrame("READ", h, off, len, <<>>) : h \in Handles, off \in 0..Size, len \in 0..(BufLen + 1)}
    \cup {ReqFrame("WRITE", h, off, Len(p), p) :
            h \in Handles, off \in 0..Size, p \in SeqsOf(Bytes, 0, BufLen)}
    \cup {ReqFrame(t, h, 0, 0, <<>>) :
            t \in {"DISCONNECT", "FLUSH", "TRIM", "OTHER"}, h \in Handles}

\* what the client takes the server's phase to be after the server has read
\* f; a client may go on writing behind an ABORT or a DISCONNECT
NextStage(ph, f) ==
    CASE ph = "S0" /\ f.k = "flags" -> "S1"
      [] ph = "S1" /\ f.k = "opt" ->
           IF f.typ = "EXPORT_NAME" THEN "S2"
           ELSE IF f.typ = "GO" /\ f.parses
                   /\ \A i \in 1..Len(f.typs) : f.typs[i] \notin {"NAME", "DESCRIPTION"}
                THEN "S2"
           ELSE "S1"
      [] ph = "S2" /\ f.k = "req" -> "S2"
      [] OTHER -> "over"

\* the phase the client expects once the server has read all of q
RECURSIVE Stage(_, _)
Stage(ph, q) == IF q = <<>> THEN ph ELSE Stage(NextStage(ph, Head(q)), Tail(q))

\* Clients of the transmission phase: the handshake of Client::new (client.rs:
\* C_FIXED_NEWSTYLE | C_NO_ZEROES, then EXPORT_NAME), then any requests
TxFrames(st) ==
    CASE st = "S0" -> {FlagsFrame(BitOr(C_FIXED_NEWSTYLE, C_NO_ZEROES))}
      [] st = "S1" -> {OptFrame("EXPORT_NAME", TRUE, TRUE, <<>>)}
      [] st = "S2" -> ReqFrames \cup {JunkFrame}
      [] OTHER -> {}

\* Clients of the handshake: any flags and options, then a read or a disconnect
HsFrames(st) ==
    CASE st = "S0" -> FlagFrames \cup {JunkFrame}
      [] st = "S1" -> OptFrames \cup {JunkFrame}
      [] st = "S2" -> {ReqFrame("READ", 0, 0, 1, <<>>), ReqFrame("DISCONNECT", 0, 0, 0, <<>>),
                       JunkFrame}
      [] OTHER -> {}

\* Clients of the listener: handshakes and requests that end the handler in
\* each phase, with Ok and with an error
LiveFrames(st) ==
    CASE st = "S0" -> {FlagsFrame(0), FlagsFrame(BitOr(C_FIXED_NEWSTYLE, C_NO_ZEROES)), JunkFrame}
      [] st = "S1" -> {OptFrame("EXPORT_NAME", u, TRUE, <<>>) : u \in BOOLEAN}
                      \cup {OptFrame("ABORT", TRUE, TRUE, <<>>), JunkFrame}
      [] st = "S2" -> {ReqFrame("READ", 0, 0, 1, <<>>), ReqFrame("WRITE", 0, 0, 1, <<1>>),
                       ReqFrame("DISCONNECT", 0, 0, 0, <<>>), ReqFrame("FLUSH", 0, 0, 0, <<>>),
                       ReqFrame("OTHER", 0, 0, 0, <<>>), JunkFrame}
      [] OTHER -> {}

\* the Request frames among q
Requests(q) == SelectSeq(q, LAMBDA f : f.k = "req")

\* payload bytes the last WRITE header among the units s still lacks
RECURSIVE Owed(_)
Owed(s) ==
    IF s = <<>> THEN 0
    ELSE LET l == s[Len(s)]
         IN  IF l.k = "byte" THEN (IF Owed(SubSeq(s, 1, Len(s) - 1)) > 0
                                   THEN Owed(SubSeq(s, 1, Len(s) - 1)) - 1 ELSE 0)
             ELSE IF l.k = "req" /\ l.typ = "WRITE" THEN l.len
             ELSE 0

\* the units of q that are no payload bytes
Headers(q) == SelectSeq(q, LAMBDA f : f.k # "byte")

\* Clients of the wire: the handshake of Client::new, then requests written
\* as a header and, for a WRITE, its payload byte by byte; also bytes that are
\* no request and a header cut short; s: the units written so far
WireFrames(st, s) ==
    CASE st = "S0" -> {FlagsFrame(BitOr(C_FIXED_NEWSTYLE, C_NO_ZEROES))}
      [] st = "S1" -> {OptFrame("EXPORT_NAME", TRUE, TRUE, <<>>)}
      [] st = "S2" ->
           IF Owed(s) > 0 THEN {ByteUnit(v) : v \in Bytes}
           ELSE {ReqFrame("WRITE", 0, off, len, <<>>) : off \in {0, Size - 1, Size}, len \in 0..1}
                \cup {ReqFrame("READ", 0, 0, 1, <<>>), ReqFrame("FLUSH", 0, 0, 0, <<>>),
                      ReqFrame("TRIM", 0, 0, 0, <<>>), JunkFrame, PartUnit}
      [] OTHER -> {}

\* Clients of the whole offset range: the handshake of Client::new, then
\* reads and writes at offsets inside the export, at its end and at the top
\* of the 64-bit range
WordFrames(st) ==
    CASE st = "S0" -> {FlagsFrame(BitOr(C_FIXED_NEWSTYLE, C_NO_ZEROES))}
      [] st = "S1" -> {OptFrame("EXPORT_NAME", TRUE, TRUE, <<>>)}
      [] st = "S2" ->
           {ReqFrame("READ", 0, off, len, <<>>) :
                off \in {0, Size, Word - 2, Word - 1}, len \in 0..BufLen}
           \cup {ReqFrame("WRITE", 0, off, Len(p), p) :
                off \in {0, Size, Word - 2, Word - 1}, p \in SeqsOf({1}, 0, BufLen)}
      [] OTHER -> {}

\* requests a client of SessFrames may send on one connection
SessReqs == 2

\* Clients of consecutive sessions: the handshake of Client::new or an ABORT,
\* then writes and reads of the first bytes and each way to end a session
SessFrames(st) ==
    CASE st = "S0" -> {FlagsFrame(BitOr(C_FIXED_NEWSTYLE, C_NO_ZEROES))}
      [] st = "S1" -> {OptFrame("EXPORT_NAME", TRUE, TRUE, <<>>),
                       OptFrame("ABORT", TRUE, TRUE, <<>>)}
      [] st = "S2" -> {ReqFrame("WRITE", 0, 0, 1, <<1>>), ReqFrame("WRITE", 0, 1, 1, <<1>>),
                       ReqFrame("READ", 0, 0, 2, <<>>),
                       ReqFrame("DISCONNECT", 0, 0, 0, <<>>), ReqFrame("FLUSH", 0, 0, 0, <<>>),
                       ReqFrame("OTHER", 0, 0, 0, <<>>), JunkFrame}
      [] OTHER -> {}

\* Pipelined client: the handshake of Client::new, then PipeN writes, then
\* PipeN reads, the i-th read at the offset and of the length of the i-th
\* write; it numbers its requests, the handle being the number of requests
\* written before; s: the frames it has written so far
PipeFrames(st, s) ==
    CASE st = "S0" -> {FlagsFrame(BitOr(C_FIXED_NEWSTYLE, C_NO_ZEROES))}
      [] st = "S1" -> {OptFrame("EXPORT_NAME", TRUE, TRUE, <<>>)}
      [] st = "S2" ->
           LET n == Len(Requests(s)) IN
           IF n < PipeN
           THEN {ReqFrame("WRITE", n, off, Len(p), p) :
                    off \in 0..Size, p \in SeqsOf(Bytes, 0, BufLen)}
           ELSE IF n < 2 * PipeN
           THEN LET w == Requests(s)[n - PipeN + 1]
                IN  {ReqFrame("READ", n, w.offset, w.len, <<>>)}
           ELSE {}
      [] OTHER -> {}

----------------------------------------------------------------------------
(* Client library: Client<IO> (client.rs) *)

\* Request::new(typ, offset, len) with the handle the client gives it
RequestNew(typ, handle, offset, len) ==
    [typ |-> typ, handle |-> handle, offset |-> offset, len |-> len]

\* the Client that Client::new returns once its handshake is done: st is
\* "ready" between two calls and "wait" inside a call, from the request
\* written by put to the reply read by get_reply_data; nxt: the next handle;
\* tx: the requests written to the stream; rx: what the peer has written and
\* the client has not read; ops: the calls that have returned, with the reply
\* each of them read and whether it returned Ok
ClientNew == [st |-> "ready", nxt |-> 0, tx |-> <<>>, rx |-> <<>>, ops |-> <<>>]

\* get_reply_data that checks the error code of the reply alone
GetReplyData_NoHandleCheck(req, reply) == reply.k = "reply" /\ reply.err = "OK"

\* get_reply_data / get_ack: Ok iff SimpleReply::get decodes a reply, its
\* handle is the request's and its error is OK
GetReplyData(req, reply) ==
    IF reply.k # "reply" THEN FALSE
    ELSE IF reply.handle # req.handle THEN FALSE
    ELSE IF reply.err # "OK" THEN FALSE
    ELSE TRUE

\* what a peer of the client may write: replies with any handle and error
\* code, or bytes that are no reply
PeerFrames ==
    {[k |-> "reply", err |-> e, handle |-> h, data |-> <<>>] :
        e \in {"OK", "EIO"}, h \in 0..MaxOps}
    \cup {JunkFrame}

----------------------------------------------------------------------------
(* Actions *)

Init ==
    /\ backend \in {"mem", "file"}
    /\ data = Zeroes(Size)
    /\ pending = 0
    /\ accepted = 0
    /\ phase = "idle"
    /\ flags = 0
    /\ inq = <<>>
    /\ closed = FALSE
    /\ out = <<>>
    /\ log = <<>>
    /\ sent = <<>>
    /\ result = "none"
    /\ nreq = 0
    /\ nopt = 0
    /\ cli = ClientNew

\* a client connects to the listening socket
Connect ==
    /\ pending + accepted < MaxConns
    /\ pending' = pending + 1
    /\ UNCHANGED <<cli, backend, data, accepted, phase, flags, inq, closed, out, log, sent,
                   result, nreq, nopt>>

\* the connected client writes one frame f
Send(f) ==
    /\ phase # "idle"
    /\ ~closed
    /\ Len(inq) < MaxInFlight
    /\ f.k = "opt" => nopt < MaxOpts
    /\ inq' = Append(inq, f)
    /\ sent' = Append(sent, f)
    /\ nreq' = IF f.k = "req" THEN nreq + 1 ELSE nreq
    /\ nopt' = IF f.k = "opt" THEN nopt + 1 ELSE nopt
    /\ UNCHANGED <<cli, backend, data, pending, accepted, phase, flags, closed, out, log, result>>

ClientSend == \E f \in TxFrames(Stage(phase, inq)) : (f.k = "req" => nreq < MaxReqs) /\ Send(f)

ClientSendHs == \E f \in HsFrames(Stage(phase, inq)) : (f.k = "req" => nreq < MaxReqs) /\ Send(f)

ClientSendLive ==
    \E f \in LiveFrames(Stage(phase, inq)) : (f.k = "req" => nreq < MaxReqs) /\ Send(f)

\* the pipelined client is the first to connect; a later client only shakes hands
ClientSendPipe ==
    \E f \in PipeFrames(Stage(phase, inq), sent) : (f.k = "req" => accepted = 1) /\ Send(f)

\* after a header cut short the client writes nothing more
ClientSendWire ==
    \E f \in WireFrames(Stage(phase, Headers(inq)), sent) :
        (f.k = "req" => nreq < MaxReqs) /\ Send(f)

ClientSendWord ==
    \E f \in WordFrames(Stage(phase, inq)) : (f.k = "req" => nreq < MaxReqs) /\ Send(f)

ClientSendSess ==
    \E f \in SessFrames(Stage(phase, inq)) :
        (f.k = "req" => Len(Requests(sent)) < SessReqs) /\ Send(f)

\* the connected client closes its socket
ClientClose ==
    /\ phase # "idle"
    /\ ~closed
    /\ closed' = TRUE
    /\ UNCHANGED <<cli, backend, data, pending, accepted, phase, flags, inq, out, log, sent,
                   result, nreq, nopt>>

\* Server::start building a fresh export for every connection it accepts
Accept_FreshExport ==
    /\ phase = "idle"
    /\ pending > 0
    /\ pending' = pending - 1
    /\ accepted' = accepted + 1
    /\ phase' = "S0"
    /\ flags' = 0
    /\ inq' = <<>>
    /\ closed' = FALSE
    /\ out' = Greeting
    /\ log' = <<>>
    /\ sent' = <<>>
    /\ nopt' = 0
    /\ data' = Zeroes(Size)
    /\ UNCHANGED <<cli, backend, result, nreq>>

\* Server::start: listener.incoming() yields a connection and handle_client
\* runs initial_handshake up to its read of the client flags
Accept ==
    /\ phase = "idle"
    /\ pending > 0
    /\ pending' = pending - 1
    /\ accepted' = accepted + 1
    /\ phase' = "S0"
    /\ flags' = 0
    /\ inq' = <<>>
    /\ closed' = FALSE
    /\ out' = Greeting
    /\ log' = <<>>
    /\ sent' = <<>>
    /\ nopt' = 0
    /\ UNCHANGED <<cli, backend, data, result, nreq>>

\* Server::start propagating the handler's error (handle_client(stream)?)
\* instead of logging it: the listener loop ends
Return_StopOnErr(res) ==
    /\ phase' = IF res = "err" THEN "stopped" ELSE "idle"
    /\ result' = res
    /\ inq' = <<>>
    /\ sent' = <<>>
    /\ closed' = TRUE

\* handle_client returns res to Server::start, which logs it, drops the
\* stream and goes back to listener.incoming()
Return(res) ==
    /\ phase' = "idle"
    /\ result' = res
    /\ inq' = <<>>
    /\ sent' = <<>>
    /\ closed' = TRUE

\* the frame the next read of the stream yields
StreamRead(q) == Head(q)

\* initial_handshake from read_u32 on, then handle_client up to the first
\* Opt::get of handshake_haggle
ReadClientFlags ==
    /\ phase = "S0"
    /\ \/ /\ inq # <<>>
          /\ LET r == InitialHandshake(ClientFlagsWord(StreamRead(inq)))
             IN  IF r.ok
                 THEN /\ flags' = r.flags
                      /\ phase' = "S1"
                      /\ inq' = Tail(inq)
                      /\ UNCHANGED <<closed, result, sent>>
                 ELSE /\ Return("err")
                      /\ UNCHANGED flags
       \/ /\ inq = <<>>
          /\ closed
          /\ Return("err")
          /\ UNCHANGED flags
    /\ UNCHANGED <<cli, backend, data, pending, accepted, out, log, nreq, nopt>>

\* one iteration of handshake_haggle: Opt::get and the match on opt.typ
Haggle ==
    /\ phase = "S1"
    /\ \/ /\ inq # <<>>
          /\ LET r == HandshakeHaggle(StreamRead(inq), data, flags)
             IN  /\ out' = out \o r.out
                 /\ IF r.next \in {"S1", "S2"}
                    THEN /\ phase' = r.next
                         /\ inq' = Tail(inq)
                         /\ UNCHANGED <<closed, result, sent>>
                    ELSE Return(r.next)
       \/ /\ inq = <<>>
          /\ closed
          /\ Return("err")
          /\ UNCHANGED out
    /\ UNCHANGED <<cli, backend, data, pending, accepted, flags, log, nreq, nopt>>

\* one iteration of handle_ops: Request::get and the match on req.typ
Serve ==
    /\ phase = "S2"
    /\ \/ /\ inq # <<>>
          /\ StreamRead(inq).k = "req"
          /\ \E fault \in BOOLEAN, wrote \in 0..BufLen :
                LET req == StreamRead(inq)
                    r == HandleOps(backend, data, req, fault, wrote)
                IN  /\ out' = out \o r.out
                    /\ data' = r.data
                    /\ log' = Append(log, [req |-> req, before |-> data, after |-> r.data,
                                           at |-> Len(out), next |-> r.next,
                                           osfail |-> OsFailed(backend, req, fault, wrote)])
                    /\ IF r.next = "S2"
                       THEN /\ inq' = Tail(inq)
                            /\ UNCHANGED <<phase, closed, result, sent>>
                       ELSE Return(r.next)
       \/ /\ inq # <<>>
          /\ StreamRead(inq).k # "req"
          /\ Return("err")
          /\ UNCHANGED <<data, out, log>>
       \/ /\ inq = <<>>
          /\ closed
          /\ Return("ok")
          /\ UNCHANGED <<data, out, log>>
    /\ UNCHANGED <<cli, backend, pending, accepted, flags, nreq, nopt>>

\* one iteration of handle_ops that leaves the payload of a WRITE it answers
\* with an error in the stream (the payload read after the dispatch, on
\* success only)
ServeWire_PayloadOnSuccess ==
    /\ phase = "S2"
    /\ LET g == RequestGet(inq, closed) IN
       \/ /\ g.st = "req"
          /\ \E fault \in BOOLEAN, wrote \in 0..BufLen :
                LET r == HandleOps(backend, data, g.req, fault, wrote)
                IN  /\ out' = out \o r.out
                    /\ data' = r.data
                    /\ log' = Append(log, [req |-> g.req, before |-> data, after |-> r.data,
                                           at |-> Len(out), next |-> r.next,
                                           osfail |-> OsFailed(backend, g.req, fault, wrote)])
                    /\ IF r.next = "S2"
                       THEN /\ inq' = IF g.req.typ = "WRITE" /\ r.out[1].err # "OK"
                                      THEN Tail(inq) ELSE g.rest
                            /\ UNCHANGED <<phase, closed, result, sent>>
                       ELSE Return(r.next)
       \/ /\ g.st = "err"
          /\ Return("err")
          /\ UNCHANGED <<data, out, log>>
       \/ /\ g.st = "none"
          /\ Return("ok")
          /\ UNCHANGED <<data, out, log>>
    /\ UNCHANGED <<cli, backend, pending, accepted, flags, nreq, nopt>>

\* one iteration of handle_ops that takes every end of stream, also one inside
\* a record, and every error of Request::get for a disconnect
ServeWire_EofIsClean ==
    /\ phase = "S2"
    /\ LET g == RequestGet(inq, closed) IN
       \/ /\ g.st = "req"
          /\ \E fault \in BOOLEAN, wrote \in 0..BufLen :
                LET r == HandleOps(backend, data, g.req, fault, wrote)
                IN  /\ out' = out \o r.out
                    /\ data' = r.data
                    /\ log' = Append(log, [req |-> g.req, before |-> data, after |-> r.data,
                                           at |-> Len(out), next |-> r.next,
                                           osfail |-> OsFailed(backend, g.req, fault, wrote)])
                    /\ IF r.next = "S2"
                       THEN /\ inq' = g.rest
                            /\ UNCHANGED <<phase, closed, result, sent>>
                       ELSE Return(r.next)
       \/ /\ g.st \in {"err", "none"}
          /\ Return("ok")
          /\ UNCHANGED <<data, out, log>>
    /\ UNCHANGED <<cli, backend, pending, accepted, flags, nreq, nopt>>

\* one iteration of handle_ops on the stream as it is on the wire:
\* Request::get reads the header and the payload, then the match on req.typ
ServeWire ==
    /\ phase = "S2"
    /\ LET g == RequestGet(inq, closed) IN
       \/ /\ g.st = "req"
          /\ \E fault \in BOOLEAN, wrote \in 0..BufLen :
                LET r == HandleOps(backend, data, g.req, fault, wrote)
                IN  /\ out' = out \o r.out
                    /\ data' = r.data
                    /\ log' = Append(log, [req |-> g.req, before |-> data, after |-> r.data,
                                           at |-> Len(out), next |-> r.next,
                                           osfail |-> OsFailed(backend, g.req, fault, wrote)])
                    /\ IF r.next = "S2"
                       THEN /\ inq' = g.rest
                            /\ UNCHANGED <<phase, closed, result, sent>>
                       ELSE Return(r.next)
       \/ /\ g.st = "err"
          /\ Return("err")
          /\ UNCHANGED <<data, out, log>>
       \/ /\ g.st = "none"
          /\ Return("ok")
          /\ UNCHANGED <<data, out, log>>
    /\ UNCHANGED <<cli, backend, pending, accepted, flags, nreq, nopt>>

\* one iteration of handle_ops with the memory store's index arithmetic at
\* its width: a panic in read_at / write_at unwinds through handle_client and
\* Server::start out of main, and the process is gone
ServeWord ==
    /\ phase = "S2"
    /\ \/ /\ inq # <<>>
          /\ StreamRead(inq).k = "req"
          /\ \E profile \in Profiles, fault \in BOOLEAN, wrote \in 0..BufLen :
                LET req == StreamRead(inq)
                    r == HandleOps(backend, data, req, fault, wrote)
                IN  IF Panics(backend, Len(data), req, profile)
                    THEN /\ phase' = "crashed"
                         /\ log' = Append(log, [req |-> req, before |-> data, after |-> data,
                                                at |-> Len(out), next |-> "panic",
                                                osfail |-> FALSE])
                         /\ inq' = <<>>
                         /\ closed' = TRUE
                         /\ UNCHANGED <<data, out, result, sent>>
                    ELSE /\ out' = out \o r.out
                         /\ data' = r.data
                         /\ log' = Append(log, [req |-> req, before |-> data, after |-> r.data,
                                                at |-> Len(out), next |-> r.next,
                                                osfail |-> OsFailed(backend, req, fault, wrote)])
                         /\ IF r.next = "S2"
                            THEN /\ inq' = Tail(inq)
                                 /\ UNCHANGED <<phase, closed, result, sent>>
                            ELSE Return(r.next)
       \/ /\ inq # <<>>
          /\ StreamRead(inq).k # "req"
          /\ Return("err")
          /\ UNCHANGED <<data, out, log>>
       \/ /\ inq = <<>>
          /\ closed
          /\ Return("ok")
          /\ UNCHANGED <<data, out, log>>
    /\ UNCHANGED <<cli, backend, pending, accepted, flags, nreq, nopt>>

\* main.rs with --mem
InitWord == Init /\ backend = "mem"

NextWord ==
    Connect \/ ClientSendWord \/ ClientClose \/ Accept \/ ReadClientFlags \/ Haggle \/ ServeWord

SpecWord == InitWord /\ [][NextWord]_vars

NextWire ==
    Connect \/ ClientSendWire \/ ClientClose \/ Accept \/ ReadClientFlags \/ Haggle \/ ServeWire

SpecWire == Init /\ [][NextWire]_vars

NextSess ==
    Connect \/ ClientSendSess \/ ClientClose \/ Accept \/ ReadClientFlags \/ Haggle \/ Serve

SpecSess == Init /\ [][NextSess]_vars

\* what the server side keeps when only the client library moves
serverVars == <<backend, data, pending, accepted, phase, flags, inq, closed, out, log,
                sent, result, nreq, nopt>>

\* Client::read / write / flush up to the blocking read of the reply:
\* Request::new and req.put
ClientCall(typ, offset, len) ==
    /\ cli.st = "ready"
    /\ cli.nxt < MaxOps
    /\ cli' = [cli EXCEPT !.st = "wait", !.nxt = @ + 1,
                          !.tx = Append(@, RequestNew(typ, cli.nxt, offset, len))]
    /\ UNCHANGED serverVars

ClientRead == \E off \in 0..Size, len \in 0..BufLen : ClientCall("READ", off, len)

ClientWrite == \E off \in 0..Size, len \in 0..BufLen : ClientCall("WRITE", off, len)

ClientFlush == ClientCall("FLUSH", 0, 0)

\* Client::disconnect: the request is written and the client is consumed
ClientDisconnect ==
    /\ cli.st = "ready"
    /\ cli' = [cli EXCEPT !.st = "gone",
                          !.tx = Append(@, RequestNew("DISCONNECT", cli.nxt, 0, 0))]
    /\ UNCHANGED serverVars

\* the peer writes a frame to the client's stream
PeerReply ==
    /\ cli.st # "gone"
    /\ Len(cli.rx) + Len(cli.ops) < MaxOps
    /\ \E f \in PeerFrames : cli' = [cli EXCEPT !.rx = Append(@, f)]
    /\ UNCHANGED serverVars

\* the rest of Client::read / write / flush: get_reply_data reads one reply
\* and the call returns
ClientGetReply ==
    /\ cli.st = "wait"
    /\ cli.rx # <<>>
    /\ LET req == cli.tx[Len(cli.tx)]
           reply == Head(cli.rx)
       IN  cli' = [cli EXCEPT !.st = "ready", !.rx = Tail(@),
                              !.ops = Append(@, [req |-> req, reply |-> reply,
                                                 ok |-> GetReplyData(req, reply)])]
    /\ UNCHANGED serverVars

NextClient ==
    ClientRead \/ ClientWrite \/ ClientFlush \/ ClientDisconnect \/ PeerReply \/ ClientGetReply

SpecClient == Init /\ [][NextClient]_vars

Next == Connect \/ ClientSend \/ ClientClose \/ Accept \/ ReadClientFlags \/ Haggle \/ Serve

Spec == Init /\ [][Next]_vars

NextHs == Connect \/ ClientSendHs \/ ClientClose \/ Accept \/ ReadClientFlags \/ Haggle \/ Serve

SpecHs == Init /\ [][NextHs]_vars

\* The server is one thread that runs whenever its blocking accept or read can
\* return: each server step that stays possible is taken.  Clients may stall.
FairServer ==
    WF_vars(Accept) /\ WF_vars(ReadClientFlags) /\ WF_vars(Haggle) /\ WF_vars(Serve)

NextLive ==
    Connect \/ ClientSendLive \/ ClientClose \/ Accept \/ ReadClientFlags \/ Haggle \/ Serve

SpecLive == Init /\ [][NextLive]_vars /\ FairServer

----------------------------------------------------------------------------
(* Client::new against handle_client *)

\* the client flags Client::initial_handshake writes, without C_NO_ZEROES
ClientHandshakeWord_FixedOnly == C_FIXED_NEWSTYLE

\* the client flags Client::initial_handshake writes
ClientHandshakeWord == BitOr(C_FIXED_NEWSTYLE, C_NO_ZEROES)

\* Client::initial_handshake up to its write: the two magics and the server
\* flags it reads are accepted
ClientInitialHandshake(m1, m2, sf) ==
    /\ m1 = Magic("NBDMAGIC")
    /\ m2 = Magic("IHAVEOPT")
    /\ sf.k = "u16"
    /\ FromBitsOk(sf.v, BitOr(FIXED_NEWSTYLE, NO_ZEROES))
    /\ Contains(sf.v, FIXED_NEWSTYLE) /\ Contains(sf.v, NO_ZEROES)

\* Client::get_export_info on the next two items of the stream: a u64 taken
\* for the size and a u16 that must be a TransmitFlags value
GetExportInfo(f1, f2) ==
    IF f1.k = "u64" /\ f2.k = "u16" /\ FromBitsOk(f2.v, BitOr(HAS_FLAGS, SEND_FLUSH))
    THEN [ok |-> TRUE, size |-> f1.v]
    ELSE [ok |-> FALSE, size |-> 0]

\* no Client exists yet.  st: where Client::new is ("hs0": in
\* initial_handshake, "opt": before Opt::put, "info": in get_export_info,
\* "ready": returned Ok(Client), "failed": returned an error, "gone": the
\* Client was dropped); rd: items of `out` read so far; size: export.size;
\* conn: the connection it talks over; wait: a reply is outstanding
NoClient == [st |-> "none", rd |-> 0, size |-> 0, conn |-> 0, wait |-> FALSE]

InitCompose ==
    /\ backend \in {"mem", "file"}
    /\ data = Zeroes(Size)
    /\ pending = 0
    /\ accepted = 0
    /\ phase = "idle"
    /\ flags = 0
    /\ inq = <<>>
    /\ closed = FALSE
    /\ out = <<>>
    /\ log = <<>>
    /\ sent = <<>>
    /\ result = "none"
    /\ nreq = 0
    /\ nopt = 0
    /\ cli = NoClient

\* the client writes f on its stream
Put(f) ==
    /\ ~closed
    /\ Len(inq) < MaxInFlight
    /\ inq' = Append(inq, f)
    /\ sent' = Append(sent, f)
    /\ nreq' = IF f.k = "req" THEN nreq + 1 ELSE nreq
    /\ nopt' = IF f.k = "opt" THEN nopt + 1 ELSE nopt
    /\ UNCHANGED <<backend, data, pending, accepted, phase, flags, closed, out, log, result>>

\* Client::new(stream) is called on the connection the listener has taken
CnNew ==
    /\ phase # "idle"
    /\ cli.conn # accepted
    /\ cli' = [st |-> "hs0", rd |-> 0, size |-> 0, conn |-> accepted, wait |-> FALSE]
    /\ UNCHANGED serverVars

\* Client::initial_handshake: read the magics and the server flags, then
\* write the client flags
CnInitialHandshake ==
    /\ cli.st = "hs0"
    /\ Len(out) >= cli.rd + 3
    /\ IF ClientInitialHandshake(out[cli.rd + 1], out[cli.rd + 2], out[cli.rd + 3])
       THEN /\ Put(FlagsFrame(ClientHandshakeWord))
            /\ cli' = [cli EXCEPT !.st = "opt", !.rd = cli.rd + 3]
       ELSE /\ cli' = [cli EXCEPT !.st = "failed"]
            /\ UNCHANGED serverVars

\* Client::handshake_haggle: Opt { EXPORT_NAME, "default" }.put(stream)
CnPutOpt ==
    /\ cli.st = "opt"
    /\ Put(OptFrame("EXPORT_NAME", TRUE, TRUE, <<>>))
    /\ cli' = [cli EXCEPT !.st = "info"]

\* Client::handshake_haggle: get_export_info(stream), then Client::new
\* returns the Client
CnGetExportInfo ==
    /\ cli.st = "info"
    /\ Len(out) >= cli.rd + 2
    /\ LET r == GetExportInfo(out[cli.rd + 1], out[cli.rd + 2])
       IN  cli' = IF r.ok
                  THEN [cli EXCEPT !.st = "ready", !.rd = cli.rd + 2, !.size = r.size]
                  ELSE [cli EXCEPT !.st = "failed"]
    /\ UNCHANGED serverVars

\* requests the Client issues once it is ready
ComposeRequests ==
    {ReqFrame("READ", 0, 0, 1, <<>>), ReqFrame("WRITE", 0, Size, 1, <<1>>),
     ReqFrame("WRITE", 0, 0, 1, <<1>>), ReqFrame("FLUSH", 0, 0, 0, <<>>)}

\* Client::read / write / flush up to req.put
CnCall ==
    /\ cli.st = "ready"
    /\ ~cli.wait
    /\ nreq < MaxReqs
    /\ \E f \in ComposeRequests : Put(f)
    /\ cli' = [cli EXCEPT !.wait = TRUE]

\* Client::get_reply_data: SimpleReply::get
CnGetReply ==
    /\ cli.st = "ready"
    /\ cli.wait
    /\ cli.conn = accepted
    /\ Len(out) > cli.rd
    /\ cli' = [cli EXCEPT !.rd = cli.rd + 1, !.wait = FALSE]
    /\ UNCHANGED serverVars

\* Client::disconnect: the DISCONNECT request, then the Client is consumed
\* and its stream dropped
CnDisconnect ==
    /\ cli.st = "ready"
    /\ ~cli.wait
    /\ ~closed
    /\ Len(inq) < MaxInFlight
    /\ inq' = Append(inq, ReqFrame("DISCONNECT", 0, 0, 0, <<>>))
    /\ sent' = Append(sent, ReqFrame("DISCONNECT", 0, 0, 0, <<>>))
    /\ closed' = TRUE
    /\ cli' = [cli EXCEPT !.st = "gone"]
    /\ UNCHANGED <<backend, data, pending, accepted, phase, flags, out, log, result, nreq, nopt>>

\* the Client is dropped without a DISCONNECT
CnDrop ==
    /\ cli.st = "ready"
    /\ ~cli.wait
    /\ ~closed
    /\ closed' = TRUE
    /\ cli' = [cli EXCEPT !.st = "gone"]
    /\ UNCHANGED <<backend, data, pending, accepted, phase, flags, inq, out, log, sent,
                   result, nreq, nopt>>

NextCompose ==
    \/ Connect \/ Accept \/ ReadClientFlags \/ Haggle \/ Serve
    \/ CnNew \/ CnInitialHandshake \/ CnPutOpt \/ CnGetExportInfo
    \/ CnCall \/ CnGetReply \/ CnDisconnect \/ CnDrop

\* both ends run: the server's thread and the thread inside Client::new
SpecCompose ==
    /\ InitCompose
    /\ [][NextCompose]_vars
    /\ FairServer
    /\ WF_vars(CnNew) /\ WF_vars(CnInitialHandshake) /\ WF_vars(CnPutOpt)
    /\ WF_vars(CnGetExportInfo)

NextPipe ==
    Connect \/ ClientSendPipe \/ ClientClose \/ Accept \/ ReadClientFlags \/ Haggle \/ Serve

SpecPipe == Init /\ [][NextPipe]_vars

----------------------------------------------------------------------------
(* Reading the history of a connection *)

\* the frames the server has read on the open connection
Consumed == SubSeq(sent, 1, Len(sent) - Len(inq))

\* the frames handle_ops wrote while it handled the i-th request of log
Emitted(i) ==
    SubSeq(out, log[i].at + 1, IF i < Len(log) THEN log[i + 1].at ELSE Len(out))

\* byte ranges [o1, o1 + l1) and [o2, o2 + l2) share a byte
Overlap(o1, l1, o2, l2) == o1 < o2 + l2 /\ o2 < o1 + l1

IsRW(e) == e.req.typ \in {"READ", "WRITE"}

\* the i-th request was answered by exactly one SimpleReply with error code OK
AnsweredOk(i) == Len(Emitted(i)) = 1 /\ Emitted(i)[1].k = "reply" /\ Emitted(i)[1].err = "OK"

\* the i-th request was answered by exactly one SimpleReply with another code
AnsweredErr(i) == Len(Emitted(i)) = 1 /\ Emitted(i)[1].k = "reply" /\ Emitted(i)[1].err # "OK"

----------------------------------------------------------------------------
(* Claims *)

\* C1. Handle echo: every frame the server writes in the transmission phase is
\* a SimpleReply that carries the handle of the request it answers, whatever
\* the command, the outcome and the handle.
C1_HandleEcho ==
    \A i \in 1..Len(log) :
        \A j \in 1..Len(Emitted(i)) :
            Emitted(i)[j].k = "reply" /\ Emitted(i)[j].handle = log[i].req.handle

\* C1 witness: an unknown command with the largest handle was answered ENOTSUP
\* with that handle, after a read with another handle was answered.
C1_Witness ==
    /\ Len(log) = 2
    /\ log[1].req.typ = "READ" /\ log[1].req.handle = 0 /\ Len(Emitted(1)) = 1
    /\ log[2].req.typ = "OTHER" /\ log[2].req.handle = MaxHandle
    /\ Emitted(2) = <<[k |-> "reply", err |-> "ENOTSUP", handle |-> MaxHandle, data |-> <<>>]>>

\* C2 (as claimed). Write/read round-trip: a WRITE(off, data) of at least one
\* byte with off + Len(data) <= size, whose I/O the operating system does not
\* fail, is answered OK, and a later READ(off, Len(data)) with no overlapping
\* write in between is answered OK with exactly data.
C2_RoundTrip ==
    \A i \in 1..Len(log) :
        LET w == log[i].req IN
        (/\ w.typ = "WRITE" /\ w.len >= 1 /\ w.offset + w.len <= Len(log[i].before)
         /\ ~log[i].osfail) =>
            /\ AnsweredOk(i)
            /\ \A j \in (i + 1)..Len(log) :
                 LET r == log[j].req IN
                 (/\ r.typ = "READ" /\ r.offset = w.offset /\ r.len = w.len
                  /\ ~log[j].osfail
                  /\ \A m \in (i + 1)..(j - 1) :
                        ~(log[m].req.typ = "WRITE"
                          /\ Overlap(log[m].req.offset, log[m].req.len, w.offset, w.len))) =>
                     AnsweredOk(j) /\ Emitted(j)[1].data = w.payload

\* C3 (as claimed). Bounds rejection: on either backing store a READ or WRITE
\* with offset + length > size() is answered by a non-OK reply and leaves
\* the export's bytes and size as they were.
C3_BoundsRejection ==
    \A i \in 1..Len(log) :
        LET e == log[i] IN
        (IsRW(e) /\ e.req.offset + e.req.len > Len(e.before) /\ ~e.osfail) =>
            AnsweredErr(i) /\ e.after = e.before

\* C5. Handshake determinism: once the server has read the client flags
\* C_FIXED_NEWSTYLE | C_NO_ZEROES and the option EXPORT_NAME("default"), and
\* before it handles a request, all it has written is MAGIC, IHAVEOPT, 0x0003,
\* the size as u64 and 0x0009: no zero padding, no option reply.
C5_HandshakeDeterminism ==
    (/\ phase = "S2" /\ log = <<>>
     /\ Consumed = <<[k |-> "flags", v |-> 3],
                     [k |-> "opt", typ |-> "EXPORT_NAME", utf8 |-> TRUE, parses |-> TRUE,
                      typs |-> <<>>]>>) =>
        out = <<[k |-> "magic", m |-> "NBDMAGIC"], [k |-> "magic", m |-> "IHAVEOPT"],
                [k |-> "u16", v |-> 3], [k |-> "u64", v |-> Len(data)], [k |-> "u16", v |-> 9]>>

\* C5 witness: a second connection finished that handshake on an export whose
\* size a write of the first connection has changed.
C5_Witness ==
    /\ phase = "S2" /\ log = <<>> /\ accepted = 2 /\ Len(Consumed) = 2
    /\ Len(data) = Size + 1
    /\ out[4] = [k |-> "u64", v |-> Size + 1]

\* C6 (as claimed). Per-request failures keep the session alive: after a READ
\* or WRITE answered with a non-OK reply the handler stays in its loop, and a
\* later in-bounds READ (at least one byte, offset + length <= size, length
\* within the scratch buffer, no failure of the operating system) is answered
\* OK with the export's bytes of that range.
C6_SessionSurvives ==
    \A i \in 1..Len(log) :
        (IsRW(log[i]) /\ AnsweredErr(i)) =>
            /\ log[i].next = "S2"
            /\ \A j \in (i + 1)..Len(log) :
                 LET e == log[j] IN
                 (/\ e.req.typ = "READ" /\ e.req.offset + e.req.len <= Len(e.before)
                  /\ e.req.len >= 1 /\ e.req.len <= BufLen /\ ~e.osfail) =>
                     /\ AnsweredOk(j)
                     /\ Emitted(j)[1].data
                          = SubSeq(e.before, e.req.offset + 1, e.req.offset + e.req.len)

\* C9 (as claimed). Idempotent flush: every FLUSH gets an OK reply and
\* changes no byte of the export.
C9_FlushAlwaysOk ==
    \A i \in 1..Len(log) :
        log[i].req.typ = "FLUSH" => AnsweredOk(i) /\ log[i].after = log[i].before

\* C9 (amended). Every FLUSH whose export.flush() succeeds, which is every
\* FLUSH on the memory backend, gets exactly one OK reply with its handle and
\* the handler goes on; no FLUSH, failed or not, changes a byte or the size of
\* the export.
C9_FlushIdempotent ==
    \A i \in 1..Len(log) :
        LET e == log[i] IN
        e.req.typ = "FLUSH" =>
            /\ e.after = e.before
            /\ (backend = "mem" => ~e.osfail)
            /\ ~e.osfail =>
                 /\ Emitted(i) = <<[k |-> "reply", err |-> "OK", handle |-> e.req.handle,
                                    data |-> <<>>]>>
                 /\ e.next = "S2"

\* C9 witness: two consecutive FLUSH requests were both answered OK and the
\* export is what it was before the first.
C9_Witness ==
    /\ Len(log) = 2
    /\ log[1].req.typ = "FLUSH" /\ log[2].req.typ = "FLUSH"
    /\ AnsweredOk(1) /\ AnsweredOk(2)
    /\ data = log[1].before

\* the server takes a frame off the stream in this step
ServerReads == inq # <<>> /\ (inq' = Tail(inq) \/ phase' = "idle")

\* the frames the server writes in this step
Written == SubSeq(out', Len(out) + 1, Len(out'))

\* C10. INFO/GO reply sequence: when handshake_haggle reads an INFO or GO
\* option whose n requested info types are all EXPORT or BLOCK_SIZE, it writes
\* n + 2 option replies, all naming that option: an INFO reply of the i-th
\* requested type at position i, an INFO reply of type EXPORT at n + 1 (a
\* duplicate when EXPORT was requested), and ACK at n + 2.
C10_InfoReplies ==
    [][(/\ phase = "S1" /\ ServerReads
        /\ Head(inq).k = "opt" /\ Head(inq).typ \in {"INFO", "GO"} /\ Head(inq).parses
        /\ \A i \in 1..Len(Head(inq).typs) : Head(inq).typs[i] \in {"EXPORT", "BLOCK_SIZE"})
       => LET o == Head(inq)
              n == Len(o.typs)
          IN  /\ Len(Written) = n + 2
              /\ \A i \in 1..(n + 2) : Written[i].k = "optreply" /\ Written[i].opt = o.typ
              /\ \A i \in 1..n :
                    /\ Written[i].typ = "INFO"
                    /\ Len(Written[i].data) = 1
                    /\ Written[i].data[1].info = o.typs[i]
              /\ Written[n + 1].typ = "INFO"
              /\ Written[n + 1].data
                   = <<[info |-> "EXPORT", size |-> Len(data), flags |-> 9]>>
              /\ Written[n + 2].typ = "ACK" /\ Written[n + 2].data = <<>>]_vars

\* C10 witness: GO asking for BLOCK_SIZE and EXPORT was answered by four
\* replies, the EXPORT info twice, and transmission has started.
C10_Witness ==
    /\ phase = "S2"
    /\ Len(out) = 7
    /\ \A i \in 4..7 : out[i].k = "optreply" /\ out[i].opt = "GO"
    /\ out[4].typ = "INFO" /\ out[4].data[1].info = "BLOCK_SIZE"
    /\ out[5].typ = "INFO" /\ out[5].data[1].info = "EXPORT"
    /\ out[6] = out[5]
    /\ out[7].typ = "ACK"

\* the requests handle_ops has read, in the order it read them
LogRequests == [i \in 1..Len(log) |-> log[i].req]

InConn == phase \in {"S0", "S1", "S2"}

\* C7. A handler error never stops the listener: when handle_client returns,
\* with an error from any phase or with Ok, the connection is dropped and
\* Server::start is back in accept; and after an error return a pending
\* connection is eventually accepted and greeted.
C7_ListenerSurvives ==
    /\ [][(InConn /\ ~InConn') =>
            (phase' = "idle" /\ inq' = <<>> /\ result' \in {"ok", "err"})]_vars
    /\ (phase = "idle" /\ result = "err" /\ pending > 0) ~> (phase = "S0" /\ out = Greeting)

\* C7 witness: the second connection has passed its initial handshake after
\* the handler of the first returned an error.
C7_Witness == accepted = 2 /\ result = "err" /\ phase = "S1"

\* C8. Graceful disconnect: reading DISCONNECT the server writes nothing,
\* handle_client returns Ok and drops what else the client has sent, the
\* export is untouched; no request is handled after a DISCONNECT on the same
\* connection; and a pending connection is then eventually accepted.
C8_GracefulDisconnect ==
    /\ [][(/\ phase = "S2" /\ ServerReads
           /\ Head(inq).k = "req" /\ Head(inq).typ = "DISCONNECT")
          => (/\ Written = <<>> /\ phase' = "idle" /\ result' = "ok"
              /\ inq' = <<>> /\ data' = data)]_vars
    /\ [](\A i \in 1..(Len(log) - 1) : log[i].req.typ # "DISCONNECT")
    /\ (/\ phase = "idle" /\ result = "ok" /\ pending > 0
        /\ log # <<>> /\ log[Len(log)].req.typ = "DISCONNECT")
         ~> (phase = "S0" /\ out = Greeting)

\* C8 witness: the first connection sent DISCONNECT with a READ behind it, the
\* handler returned Ok and the READ was dropped; the second connection is
\* greeted.
C8_Witness ==
    /\ accepted = 2 /\ result = "ok" /\ phase = "S0" /\ nreq = 2 /\ out = Greeting
    /\ data = Zeroes(Size)

\* the client flags word the server read on the open connection (phase S1, S2)
ClientFlagsSeen == sent[1].v

\* C11. EXPORT_NAME legacy path: reading EXPORT_NAME with a UTF-8 name the
\* server writes no option reply but exactly the size as u64 and the transmit
\* flags 0x0009 as u16, followed by 124 zero bytes if and only if the client
\* flags of this connection lack C_NO_ZEROES, and goes on to transmission.
C11_ExportNameLegacy ==
    [][(/\ phase = "S1" /\ ServerReads
        /\ Head(inq).k = "opt" /\ Head(inq).typ = "EXPORT_NAME" /\ Head(inq).utf8)
       => /\ phase' = "S2"
          /\ Len(Written) \in {2, 3}
          /\ Written[1] = [k |-> "u64", v |-> Len(data)]
          /\ Written[2] = [k |-> "u16", v |-> 9]
          /\ (Len(Written) = 3) <=> ((ClientFlagsSeen \div 2) % 2 = 0)
          /\ Len(Written) = 3 => Written[3] = [k |-> "zeroes", n |-> 124]]_vars

\* C11 witness: a client that sent C_FIXED_NEWSTYLE alone got the 124 zero
\* bytes behind size and flags and is in transmission.
C11_Witness ==
    /\ phase = "S2" /\ log = <<>> /\ ClientFlagsSeen = 1
    /\ Len(out) = 6
    /\ out[4].k = "u64" /\ out[5].k = "u16" /\ out[6] = [k |-> "zeroes", n |-> 124]

\* the client flags word v lacks C_FIXED_NEWSTYLE or has a bit that is
\* neither C_FIXED_NEWSTYLE nor C_NO_ZEROES
BadClientFlags(v) == v % 2 = 0 \/ v >= 4

\* C12. Initial handshake rejection: reading client flags that lack
\* C_FIXED_NEWSTYLE or hold an unknown bit, handle_client returns an error at
\* once: nothing is written, no option is read, the export is unchanged, and
\* all the connection ever got is the greeting.
C12_HandshakeRejection ==
    /\ [][(/\ phase = "S0" /\ ServerReads
            /\ Head(inq).k = "flags" /\ BadClientFlags(Head(inq).v))
           => (/\ phase' = "idle" /\ result' = "err" /\ inq' = <<>>
               /\ out' = out /\ data' = data /\ log' = log)]_vars
    /\ [](phase = "S0" => (out = Greeting /\ log = <<>>))
    /\ [](phase \in {"S1", "S2"} => ~BadClientFlags(ClientFlagsSeen))

\* C12 witness: the first connection sent client flags and an option behind
\* them; initial_handshake rejected the flags (none were negotiated) and the
\* handler returned an error having written the greeting only.
C12_Witness ==
    /\ phase = "idle" /\ accepted = 1 /\ result = "err" /\ flags = 0
    /\ out = Greeting /\ nopt = 1 /\ data = Zeroes(Size)

\* C13. Client handle correlation: the client has written at most one request
\* more than it has read replies, exactly when a call is waiting for its
\* reply; and a read, write or flush returns Ok if and only if the reply it
\* read is a SimpleReply with the handle of the request that call wrote and
\* error OK, so a reply with another handle makes the call fail.
C13_ClientCorrelation ==
    /\ cli.st \in {"ready", "wait"} =>
          /\ Len(cli.tx) - Len(cli.ops) = (IF cli.st = "wait" THEN 1 ELSE 0)
    /\ \A i \in 1..Len(cli.ops) :
          LET o == cli.ops[i] IN
          /\ o.req = cli.tx[i]
          /\ o.req.typ \in {"READ", "WRITE", "FLUSH"}
          /\ o.ok <=> (o.reply.k = "reply" /\ o.reply.handle = o.req.handle
                       /\ o.reply.err = "OK")

\* C13 witness: the first call read an OK reply with its handle and returned
\* Ok; the second read an OK reply that carries the first call's handle and
\* failed.
C13_Witness ==
    /\ Len(cli.ops) = 2
    /\ cli.ops[1].ok /\ cli.ops[1].reply.handle = 0
    /\ ~cli.ops[2].ok /\ cli.ops[2].req.handle = 1
    /\ cli.ops[2].reply = [k |-> "reply", err |-> "OK", handle |-> 0, data |-> <<>>]

\* C14. Write frame: until a WRITE is handled a memory export is all zeroes
\* and every successful READ returns zeroes; a WRITE answered OK stores its
\* payload at [off, off + len), leaves every byte outside that range as it
\* was, and does not change the size of a memory export.
C14_WriteFrame ==
    /\ (/\ backend = "mem" /\ accepted <= 1
         /\ \A i \in 1..Len(log) : log[i].req.typ # "WRITE") =>
            /\ data = [k \in 1..Size |-> 0]
            /\ \A i \in 1..Len(log) :
                  (log[i].req.typ = "READ" /\ AnsweredOk(i)) =>
                      \A k \in 1..Len(Emitted(i)[1].data) : Emitted(i)[1].data[k] = 0
    /\ \A i \in 1..Len(log) :
          LET e == log[i]
              off == e.req.offset
              len == e.req.len
          IN  (e.req.typ = "WRITE" /\ AnsweredOk(i)) =>
                  /\ backend = "mem" => Len(e.after) = Len(e.before)
                  /\ Len(e.after) >= Len(e.before)
                  /\ \A k \in 1..Len(e.before) :
                        (k <= off \/ k > off + len) => e.after[k] = e.before[k]
                  /\ \A k \in (off + 1)..(off + len) : e.after[k] = e.req.payload[k - off]

\* C14 witness: on a memory export one byte was written in the middle and the
\* read across it returns the zero before it and the byte; the byte behind it
\* is still zero.
C14_Witness ==
    /\ backend = "mem" /\ Len(log) = 2
    /\ log[1].req.typ = "WRITE" /\ log[1].req.offset = 1 /\ log[1].req.payload = <<1>>
    /\ AnsweredOk(1)
    /\ log[2].req.typ = "READ" /\ log[2].req.offset = 0 /\ AnsweredOk(2)
    /\ Emitted(2)[1].data = <<0, 1>>
    /\ data = <<0, 1, 0>>

\* C15. Export persistence across sessions: the export's bytes change only in
\* the step in which handle_ops handles a WRITE; accepting a connection, the
\* handshake, every other request and the return of the handler, with Ok or
\* with an error, leave them alone, and the backing store is the same for
\* every connection.  A READ answered OK returns the export's bytes at that
\* moment, so it returns what the successful writes of earlier connections
\* stored, however those connections ended.
C15_ExportPersists ==
    /\ [][/\ backend' = backend
          /\ data' # data =>
                (/\ phase = "S2" /\ inq # <<>>
                 /\ Head(inq).k = "req" /\ Head(inq).typ = "WRITE")]_vars
    /\ [](\A i \in 1..Len(log) :
            (log[i].req.typ = "READ" /\ AnsweredOk(i)) =>
                  Emitted(i)[1].data
                    = SubSeq(log[i].before, log[i].req.offset + 1,
                             log[i].req.offset + log[i].req.len))
    /\ [](log = <<>> \/ log[Len(log)].after = data)

\* C15 witness: the handler of the first connection stored a byte and then
\* returned an error; the READ of the second connection returns that byte.
C15_Witness ==
    /\ accepted = 2 /\ result = "err" /\ phase = "S2"
    /\ Len(log) = 1 /\ log[1].req.typ = "READ" /\ AnsweredOk(1)
    /\ Emitted(1)[1].data = <<1, 0>>

\* C16 (as claimed). GO starts the transmission phase only on success: when
\* the option that took the server from haggling to transmission is a GO, the
\* last reply the server wrote for it is its ACK; a GO answered with
\* ERR_UNSUP leaves the server in haggling.
C16_GoOnlyOnSuccess ==
    (/\ phase = "S2" /\ log = <<>>
     /\ Consumed[Len(Consumed)].k = "opt" /\ Consumed[Len(Consumed)].typ = "GO") =>
        out[Len(out)] = [k |-> "optreply", opt |-> "GO", typ |-> "ACK", data |-> <<>>]

\* position of the first NAME or DESCRIPTION among the info types ts (0: none)
FirstUnsup(ts) ==
    IF \E i \in 1..Len(ts) : ts[i] \in {"NAME", "DESCRIPTION"}
    THEN CHOOSE i \in 1..Len(ts) :
            /\ ts[i] \in {"NAME", "DESCRIPTION"}
            /\ \A j \in 1..(i - 1) : ts[j] \notin {"NAME", "DESCRIPTION"}
    ELSE 0

\* C17. NAME/DESCRIPTION abort the info loop: when handshake_haggle reads an
\* INFO or GO option whose first NAME or DESCRIPTION is the k-th requested
\* type, it writes exactly k option replies for that option: an INFO reply for
\* each of the k - 1 types before it, then ERR_UNSUP with empty data; no
\* further INFO reply, no implicit EXPORT reply and no ACK.
C17_UnsupAbortsInfoLoop ==
    [][(/\ phase = "S1" /\ ServerReads
        /\ Head(inq).k = "opt" /\ Head(inq).typ \in {"INFO", "GO"} /\ Head(inq).parses
        /\ FirstUnsup(Head(inq).typs) > 0)
       => LET o == Head(inq)
              k == FirstUnsup(o.typs)
          IN  /\ Len(Written) = k
              /\ \A i \in 1..k : Written[i].k = "optreply" /\ Written[i].opt = o.typ
              /\ \A i \in 1..(k - 1) :
                    /\ Written[i].typ = "INFO"
                    /\ Len(Written[i].data) = 1
                    /\ Written[i].data[1].info = o.typs[i]
              /\ Written[k].typ = "ERR_UNSUP" /\ Written[k].data = <<>>]_vars

\* C17 witness: INFO asking for BLOCK_SIZE and then NAME got the BLOCK_SIZE
\* info and ERR_UNSUP and nothing else; the server is still haggling.
C17_Witness ==
    /\ phase = "S1" /\ Len(Consumed) = 2
    /\ Consumed[2].k = "opt" /\ Consumed[2].typ = "INFO"
    /\ Consumed[2].typs = <<"BLOCK_SIZE", "NAME">>
    /\ Len(out) = 5
    /\ out[4].typ = "INFO" /\ out[4].data[1].info = "BLOCK_SIZE"
    /\ out[5] = [k |-> "optreply", opt |-> "INFO", typ |-> "ERR_UNSUP", data |-> <<>>]

\* C18. Haggling transitions: the server handles requests only in the
\* transmission phase, which it enters only having read EXPORT_NAME or GO on
\* that connection.  Reading LIST it writes one SERVER reply with the name of
\* the single export and then ACK; reading an INFO that decodes it stays in
\* haggling; reading an unsupported option it writes ERR_UNSUP with empty
\* data; after each of them it reads the next option, every time.  Reading
\* ABORT it writes nothing, the handler returns Ok and no request is handled.
C18_HagglingTransitions ==
    /\ [](phase = "S2" =>
            \E i \in 1..Len(Consumed) :
                Consumed[i].k = "opt" /\ Consumed[i].typ \in {"EXPORT_NAME", "GO"})
    /\ [][(log' # log /\ log' # <<>>) => (phase = "S2" /\ Head(inq).k = "req")]_vars
    /\ [][(phase = "S1" /\ ServerReads /\ Head(inq).k = "opt") =>
            LET o == Head(inq) IN
            /\ o.typ = "LIST" =>
                 /\ phase' = "S1"
                 /\ Written = <<[k |-> "optreply", opt |-> "LIST", typ |-> "SERVER",
                                 data |-> <<[name |-> "default"]>>],
                                [k |-> "optreply", opt |-> "LIST", typ |-> "ACK",
                                 data |-> <<>>]>>
            /\ (o.typ = "INFO" /\ o.parses) => phase' = "S1"
            /\ o.typ = "OTHER" =>
                 /\ phase' = "S1"
                 /\ Written = <<[k |-> "optreply", opt |-> "OTHER", typ |-> "ERR_UNSUP",
                                 data |-> <<>>]>>
            /\ o.typ = "ABORT" =>
                 /\ Written = <<>> /\ phase' = "idle" /\ result' = "ok"
                 /\ log' = <<>> /\ data' = data]_vars

\* C18 witness: LIST and then an unsupported option were answered, three
\* replies behind the greeting, and the server is still haggling.
C18_Witness ==
    /\ phase = "S1" /\ Len(Consumed) = 3
    /\ Consumed[2].typ = "LIST" /\ Consumed[3].typ = "OTHER"
    /\ Len(out) = 6
    /\ out[4].typ = "SERVER" /\ out[5].typ = "ACK" /\ out[6].typ = "ERR_UNSUP"

\* C19. READ reply shape: every READ is answered by exactly one SimpleReply
\* with its handle.  If the error code is OK the reply is followed by exactly
\* len payload bytes, the export's bytes [offset, offset + len) at the time of
\* the request; otherwise it has no payload.  A READ changes no byte.
C19_ReadReplyShape ==
    \A i \in 1..Len(log) :
        LET e == log[i] IN
        e.req.typ = "READ" =>
            /\ Len(Emitted(i)) = 1
            /\ Emitted(i)[1].k = "reply"
            /\ Emitted(i)[1].handle = e.req.handle
            /\ Emitted(i)[1].err = "OK" =>
                 /\ Len(Emitted(i)[1].data) = e.req.len
                 /\ e.req.offset + e.req.len <= Len(e.before)
                 /\ \A k \in 1..e.req.len :
                       Emitted(i)[1].data[k] = e.before[e.req.offset + k]
            /\ Emitted(i)[1].err # "OK" => Emitted(i)[1].data = <<>>
            /\ e.after = e.before
            /\ e.next = "S2"

\* C19 witness: a READ of two bytes was answered by an error reply without
\* payload, and the READ of two bytes behind it by OK and the two bytes.
C19_Witness ==
    /\ Len(log) = 2
    /\ log[1].req.typ = "READ" /\ AnsweredErr(1) /\ log[1].req.len = 2
    /\ log[2].req.typ = "READ" /\ AnsweredOk(2) /\ log[2].req.len = 2
    /\ Emitted(2)[1].data = <<0, 0>> /\ Emitted(1)[1].data = <<>>

\* C20. Oversized READ: at every iteration of handle_ops the scratch buffer
\* has its full length; a READ whose length exceeds that length is answered
\* by one EOVERFLOW reply with its handle and no payload, whatever the
\* backing store holds and whether or not its I/O would fail (it is not
\* read), the export is unchanged and the handler stays in its loop.
C20_OversizedRead ==
    \A i \in 1..Len(log) :
        LET e == log[i] IN
        /\ Len(Scratch(e.req)) = BufLen
        /\ (e.req.typ = "READ" /\ e.req.len > BufLen) =>
              /\ Emitted(i) = <<[k |-> "reply", err |-> "EOVERFLOW",
                                 handle |-> e.req.handle, data |-> <<>>]>>
              /\ \A fault \in BOOLEAN :
                    ExportRead(backend, e.before, e.req.offset, e.req.len, BufLen, fault)
                      = [err |-> "EOVERFLOW", bytes |-> <<>>]
              /\ ~e.osfail
              /\ e.after = e.before
              /\ e.next = "S2"

\* C20 witness: a READ longer than the scratch buffer, at an offset where a
\* shorter read succeeds, was answered EOVERFLOW, and the READ sent behind it
\* on the same connection was answered OK.
C20_Witness ==
    /\ Len(log) = 2
    /\ log[1].req.typ = "READ" /\ log[1].req.len = BufLen + 1 /\ log[1].req.offset = 0
    /\ Emitted(1)[1].err = "EOVERFLOW"
    /\ log[2].req.typ = "READ" /\ log[2].req.offset = 0 /\ AnsweredOk(2)
    /\ phase = "S2"

\* the units a request occupies on the wire: its header, then its payload
WireUnits(req) ==
    <<[req EXCEPT !.payload = <<>>]>> \o [i \in 1..Len(req.payload) |-> ByteUnit(req.payload[i])]

\* the units the requests rs occupy on the wire, in order
RECURSIVE Unframe(_)
Unframe(rs) == IF rs = <<>> THEN <<>> ELSE WireUnits(Head(rs)) \o Unframe(Tail(rs))

\* C21. WRITE framing: in the transmission phase the units the server has
\* taken from the stream after the handshake are exactly the headers of the
\* requests it dispatched, each WRITE header followed by its len payload
\* bytes, whether the write was accepted or answered with an error; so the
\* next header is read right after the payload and no payload byte is taken
\* for a header.
C21_WriteFraming ==
    phase = "S2" =>
        /\ SubSeq(Consumed, 3, Len(Consumed)) = Unframe(LogRequests)
        /\ \A i \in 1..Len(log) :
              /\ log[i].req.k = "req"
              /\ log[i].req.typ = "WRITE" => Len(log[i].req.payload) = log[i].req.len

\* a WRITE with one payload byte was answered with an error and the READ
\* sent after it was answered OK
C21_Witness ==
    /\ phase = "S2"
    /\ Len(log) = 2
    /\ log[1].req.typ = "WRITE" /\ log[1].req.len = 1 /\ AnsweredErr(1)
    /\ log[2].req.typ = "READ" /\ AnsweredOk(2)

\* the server handles a request of type typ in this step
Dispatches(typ) ==
    /\ phase = "S2"
    /\ inq # <<>>
    /\ Head(inq).k = "req"
    /\ Head(inq).typ = typ
    /\ ServerReads

\* C22. FLUSH failure is session-fatal: a FLUSH whose export.flush() succeeds
\* is answered by one SimpleReply(OK, handle) and the handler reads on; one
\* whose flush fails gets no reply at all, the handler returns the error, the
\* connection is closed with whatever the client had queued behind the FLUSH
\* dropped, and it is the last request handled on that connection.
C22_FlushFatal ==
    /\ [][Dispatches("FLUSH") =>
            LET req == Head(inq) IN
            \/ /\ ~log'[Len(log')].osfail
               /\ Written = <<[k |-> "reply", err |-> "OK", handle |-> req.handle,
                               data |-> <<>>]>>
               /\ phase' = "S2"
               /\ inq' = Tail(inq)
               /\ result' = result
            \/ /\ log'[Len(log')].osfail
               /\ backend = "file"
               /\ Written = <<>>
               /\ phase' = "idle"
               /\ result' = "err"
               /\ closed'
               /\ inq' = <<>>]_vars
    /\ [](\A i \in 1..Len(log) :
            (log[i].req.typ = "FLUSH" /\ log[i].osfail) =>
                /\ i = Len(log)
                /\ Emitted(i) = <<>>
                /\ log[i].next = "err"
                /\ log[i].after = log[i].before
                /\ phase = "idle"
                /\ result = "err")

\* C22 witness: on the first connection a FLUSH was answered OK, the FLUSH
\* behind it failed in sync_all and got no reply, and the handler returned
\* the error.
C22_Witness ==
    /\ accepted = 1
    /\ phase = "idle"
    /\ result = "err"
    /\ Len(log) = 2
    /\ log[1].req.typ = "FLUSH" /\ AnsweredOk(1)
    /\ log[2].req.typ = "FLUSH" /\ log[2].osfail /\ Emitted(2) = <<>>

\* C23. Unknown command: a request whose type is none of READ, WRITE,
\* DISCONNECT, FLUSH, TRIM gets exactly one SimpleReply(ENOTSUP, handle) and
\* nothing else; the handler then returns, the connection is closed, what the
\* client queued behind it is dropped, it is the last request handled on the
\* connection, and the export is as it was.
C23_UnknownCommand ==
    /\ [][Dispatches("OTHER") =>
            /\ Written = <<[k |-> "reply", err |-> "ENOTSUP", handle |-> Head(inq).handle,
                            data |-> <<>>]>>
            /\ data' = data
            /\ phase' = "idle"
            /\ closed'
            /\ inq' = <<>>]_vars
    /\ [](\A i \in 1..Len(log) :
            log[i].req.typ = "OTHER" =>
                /\ i = Len(log)
                /\ Len(Emitted(i)) = 1
                /\ Emitted(i)[1].err = "ENOTSUP"
                /\ log[i].after = log[i].before
                /\ ~log[i].osfail
                /\ phase = "idle")

\* C23 witness: on the first connection a WRITE was answered OK, the request
\* of unknown type behind it, with handle 1, was answered ENOTSUP, and the
\* connection is closed with the written byte still in the export.
C23_Witness ==
    /\ accepted = 1
    /\ phase = "idle"
    /\ Len(log) = 2
    /\ log[1].req.typ = "WRITE" /\ log[1].req.payload = <<1>> /\ AnsweredOk(1)
    /\ log[2].req.typ = "OTHER" /\ log[2].req.handle = 1
    /\ Emitted(2) = <<[k |-> "reply", err |-> "ENOTSUP", handle |-> 1, data |-> <<>>]>>
    /\ data = log[1].after
    /\ data # Zeroes(Size)

\* C24. End of stream: whenever handle_ops returns without having dispatched
\* a request, then (a) if the stream was at the boundary between two requests
\* the client had closed it and the result is Ok; (b) if the stream held a
\* header cut short, or a WRITE header with fewer payload bytes than its len,
\* the client had closed it and the result is an error; (c) if the stream
\* held bytes that do not start with the request magic the result is an
\* error; and in all three cases the server writes nothing.
C24_EndOfStream ==
    [][(phase = "S2" /\ phase' = "idle" /\ log' = log) =>
          LET boundary == inq = <<>>
              midHeader == inq # <<>> /\ Head(inq).k = "part"
              midPayload == /\ inq # <<>>
                            /\ Head(inq).k = "req"
                            /\ Head(inq).typ = "WRITE"
                            /\ Len(inq) - 1 < Head(inq).len
              badMagic == inq # <<>> /\ Head(inq).k = "junk"
          IN  /\ out' = out
              /\ data' = data
              /\ boundary \/ midHeader \/ midPayload \/ badMagic
              /\ boundary => closed /\ result' = "ok"
              /\ (midHeader \/ midPayload) => closed /\ result' = "err"
              /\ badMagic => result' = "err"]_vars

\* C24 witness: on the first connection a request was answered OK, a second
\* request was written but never dispatched, and the handler returned an
\* error: the second was a WRITE whose payload the client never sent before
\* it closed the stream.
C24_Witness ==
    /\ accepted = 1
    /\ phase = "idle"
    /\ result = "err"
    /\ nreq = 2
    /\ Len(log) = 1
    /\ log[1].next = "S2"
    /\ AnsweredOk(1)

\* C25 (as claimed). No request crashes the server: on the memory export
\* every READ and WRITE, whatever its offset and length, the sum of the two
\* exceeding the 64-bit word included, is answered by exactly one reply, and
\* the server process is never brought down.
C25_NoCrash ==
    /\ phase # "crashed"
    /\ \A i \in 1..Len(log) :
          log[i].req.typ \in {"READ", "WRITE"} => Len(Emitted(i)) = 1

\* C26. Client and server handshakes compose: Client::new run against
\* handle_client never fails; when it returns, the client has read everything
\* the server has written (no padding, no option reply is left in the
\* stream), the server has read everything the client has written and is in
\* the transmission phase, and Client::size() is the size of the server's
\* export (on a memory export for as long as the Client lives); the first
\* request the client writes finds the server in the transmission phase; and
\* every Client::new that has started returns.
C26_HandshakesCompose ==
    /\ [](cli.st # "failed")
    /\ [][(cli.st # "ready" /\ cli'.st = "ready") =>
            /\ cli'.rd = Len(out)
            /\ inq = <<>>
            /\ phase = "S2"
            /\ cli'.size = ExportSize(data)]_vars
    /\ []((cli.st = "ready" /\ backend = "mem") => cli.size = ExportSize(data))
    /\ [][(Requests(sent) = <<>> /\ Requests(sent') # <<>>) => phase = "S2"]_vars
    /\ (cli.st = "hs0") ~> (cli.st = "ready")

\* C26 witness: the Client of the second connection is ready and reports the
\* size the file export has grown to by the first connection's write past
\* its end; it has read everything the server wrote, and its own request has
\* been answered OK.
C26_Witness ==
    /\ backend = "file"
    /\ accepted = 2
    /\ cli.st = "ready"
    /\ cli.conn = 2
    /\ cli.size = Size + 1
    /\ ~cli.wait
    /\ cli.rd = Len(out)
    /\ Len(log) = 1
    /\ AnsweredOk(1)

============================================================================
